---- MODULE Spec2Model ----
(***************************************************************************)
(* The bounded-concurrency SQS consumer of social9/go-queues.              *)
(*                                                                         *)
(* Spec    : Config.Poll of src/unnamed/part_001 (in-flight count kept in  *)
(*           the field s.handlerCount, closure-based handler goroutines).  *)
(* SpecV2  : Config.Poll of src/streams/sqs/sqs.go (in-flight count kept   *)
(*           in the local variable handlerCount, handler gets wg and msg). *)
(* SpecV0  : SQS.Poll of src/streams/sqs.go (no admission control).        *)
(* SpecNew : NewSQS and validateOpts of src/unnamed/part_001.              *)
(* SpecStub: the channel-backed SQS of src/unnamed/part_000 (Poll, Read).  *)
(*                                                                         *)
(* The queue service is an input: each ReceiveMessage call either fails or *)
(* returns between 0 and maxMsgs fresh messages.  A message is named by    *)
(* the number of its receipt handle, 1, 2, 3, ... in delivery order.       *)
(***************************************************************************)
EXTENDS Integers, FiniteSets, Sequences

\* ------------------------------------------------------------------ bounds
\* Total number of messages the queue hands out over one run.
MaxMsgs == 4
\* Number of loop iterations (values of the batch counter) explored.
MaxBatch == 3
Msgs == 1..MaxMsgs
Batches == 1..MaxBatch
\* The configurations explored: MaxHandlers 0 is the unlimited mode.
MaxHandlersValues == {0, 1, 2}
BatchSizeValues == {1}
HandlerKinds == {"delete", "cvt"}
\* Largest Limit given to the channel-backed stub.
MaxLimit == 3
LimitValues == 0..MaxLimit
Jobs == 1..MaxLimit
\* The channels of the stub: 0 is made by NewSQS, 1 by Poll.
Chans == {0, 1}

VARIABLES
    MaxHandlers,   \* Config.MaxHandlers
    RunOnce,       \* Config.RunOnce
    BatchSize,     \* Config.BatchSize
    pollHandler,   \* Config.pollHandler: "nil" or what the registered handler calls
    handlerCount,  \* Config.handlerCount (part_001) / local handlerCount (sqs.go)
    pc,            \* position of the goroutine that runs Poll
    batch,         \* local batch
    maxMsgs,       \* local maxMsgs
    wg,            \* counter of the local sync.WaitGroup
    result,        \* result.Messages of the last ReceiveMessage, <<first, last>>
    idx,           \* number of elements of result.Messages already ranged over
    msg,           \* the loop variable msg of each execution of the range loop
    tmp,           \* value of handlerCount loaded by the loop's handlerCount++
    g,             \* position of the goroutine spawned for each message
    gbatch,        \* the execution of the range loop that spawned the goroutine
    arg,           \* the message the goroutine passed to pollHandler
    gtmp,          \* value of handlerCount loaded by the goroutine's handlerCount--
    delivered,     \* number of messages the queue has handed out
    recvCalls,     \* number of ReceiveMessage calls made
    err,           \* TRUE once a ReceiveMessage call returned an error
    deletes,       \* number of Delete calls per receipt handle
    cvts,          \* number of ChangeVisibilityTimeout calls per receipt handle
    crashed,       \* the process was ended by an unrecovered panic
    cancelled,     \* cancellation was signalled to the consumer
    ret,           \* what Poll handed to its caller on return
    AWSRegion,     \* Config.AWSRegion
    URL,           \* Config.URL
    WaitSeconds,   \* Config.WaitSeconds
    VisibilityTimeout, \* Config.VisibilityTimeout
    RunInterval,   \* Config.RunInterval
    nsPc,          \* position of NewSQS
    nsErr,         \* the error NewSQS returned, "nil" for none
    nsInst,        \* the instance NewSQS returned, "nil" for none
    netCalls,      \* number of calls NewSQS made to the queue service
    Limit,         \* stub: SQS.Limit
    jobs,          \* stub: the channel the field s.jobs refers to
    chanBuf,       \* stub: the buffered jobs of each channel, oldest first
    chanClosed,    \* stub: whether each channel is closed
    ppc,           \* stub: position of the goroutine that runs Poll
    pi,            \* stub: the loop variable i of Poll
    rpc,           \* stub: position of the goroutine that runs Read
    rch,           \* stub: the channel Read's range statement evaluated
    rwg,           \* stub: counter of Read's local sync.WaitGroup
    rg,            \* stub: position of the goroutine of run for each job ID
    invoked,       \* stub: number of go run(&wg, job) statements per job ID
    readAfterPoll  \* stub: Read was called after Poll had returned

vars == <<MaxHandlers, RunOnce, BatchSize, pollHandler, handlerCount, pc, batch,
          maxMsgs, wg, result, idx, msg, tmp, g, gbatch, arg, gtmp, delivered,
          recvCalls, err, deletes, cvts, crashed, cancelled, ret, AWSRegion, URL,
          WaitSeconds, VisibilityTimeout, RunInterval, nsPc, nsErr, nsInst,
          netCalls, Limit, jobs, chanBuf, chanClosed, ppc, pi, rpc, rch, rwg, rg,
          invoked, readAfterPoll>>

newVars == <<nsPc, nsErr, nsInst, netCalls>>
stubVars == <<Limit, jobs, chanBuf, chanClosed, ppc, pi, rpc, rch, rwg, rg,
              invoked, readAfterPoll>>
cfgVars == <<MaxHandlers, RunOnce, BatchSize, AWSRegion, URL, WaitSeconds,
             VisibilityTimeout, RunInterval, newVars, stubVars>>
loopVars == <<pc, batch, maxMsgs, result, idx, tmp>>
goVars == <<g, gbatch, arg, gtmp>>
queueVars == <<delivered, recvCalls, err, deletes, cvts>>

Min(a, b) == IF a < b THEN a ELSE b

\* The stub instance NewSQS(limit, waitSeconds) of part_000 returns: jobs is a
\* fresh open channel, nothing runs.
StubInit(limit) ==
    /\ Limit = limit
    /\ jobs = 0
    /\ chanBuf = [c \in Chans |-> <<>>]
    /\ chanClosed = [c \in Chans |-> FALSE]
    /\ ppc = "idle"
    /\ pi = 0
    /\ rpc = "idle"
    /\ rch = 0
    /\ rwg = 0
    /\ rg = [j \in Jobs |-> "none"]
    /\ invoked = [j \in Jobs |-> 0]
    /\ readAfterPoll = FALSE

\* ------------------------------------------------------------------ state
\* The instance returned by a successful NewSQS (configured as in src/main.go):
\* no handler registered, handlerCount 0.
Init ==
    /\ MaxHandlers \in MaxHandlersValues
    /\ RunOnce \in BOOLEAN
    /\ BatchSize \in BatchSizeValues
    /\ pollHandler = "nil"
    /\ handlerCount = 0
    /\ pc = "idle"
    /\ batch = 0
    /\ maxMsgs = 0
    /\ wg = 0
    /\ result = <<1, 0>>
    /\ idx = 0
    /\ msg = [b \in Batches |-> 0]
    /\ tmp = 0
    /\ g = [m \in Msgs |-> "none"]
    /\ gbatch = [m \in Msgs |-> 0]
    /\ arg = [m \in Msgs |-> 0]
    /\ gtmp = [m \in Msgs |-> 0]
    /\ delivered = 0
    /\ recvCalls = 0
    /\ err = FALSE
    /\ deletes = [m \in Msgs |-> 0]
    /\ cvts = [m \in Msgs |-> 0]
    /\ crashed = FALSE
    /\ cancelled = FALSE
    /\ ret = "none"
    /\ AWSRegion = "us-east-2"
    /\ URL = "url"
    /\ WaitSeconds = 5
    /\ VisibilityTimeout = 120
    /\ RunInterval = 20
    /\ nsPc = "done"
    /\ nsErr = "nil"
    /\ nsInst = "instance"
    /\ netCalls = 1
    /\ StubInit(0)

\* ------------------------------------------------- Poll of part_001: the loop
\* RegisterPollHandler: the caller installs a handler before calling Poll.  The
\* handler of src/main.go ends with ChangeVisibilityTimeout(msg, 0), the one of
\* the README with Delete(msg).
RegisterPollHandler(kind) ==
    /\ ~crashed
    /\ pc = "idle"
    /\ pollHandler = "nil"
    /\ pollHandler' = kind
    /\ UNCHANGED <<cfgVars, handlerCount, loopVars, wg, msg, goVars, queueVars,
                   crashed, cancelled, ret>>

\* Poll is entered: wg := sync.WaitGroup{}; batch := 0.
PollStart ==
    /\ ~crashed
    /\ pc = "idle"
    /\ pc' = "top"
    /\ wg' = 0
    /\ batch' = 0
    /\ UNCHANGED <<cfgVars, pollHandler, handlerCount, maxMsgs, result, idx, tmp,
                   msg, goVars, queueVars, crashed, cancelled, ret>>

\* The capacity test written with > for >=.
AtCapacity_Gt(hc) == MaxHandlers > 0 /\ hc > MaxHandlers

\* "Is running at capacity?": MaxHandlers > 0 && handlerCount >= MaxHandlers.
AtCapacity(hc) == MaxHandlers > 0 /\ hc >= MaxHandlers

\* The top of the loop counting only the iterations that go on to fetch.
LoopTop_FetchesOnly ==
    /\ ~crashed
    /\ pc = "top"
    /\ batch < MaxBatch
    /\ batch' = IF AtCapacity(handlerCount) THEN batch ELSE batch + 1
    /\ maxMsgs' = BatchSize
    /\ pc' = IF AtCapacity(handlerCount) THEN "busy" ELSE "size"
    /\ UNCHANGED <<cfgVars, pollHandler, handlerCount, wg, result, idx, tmp, msg,
                   goVars, queueVars, crashed, cancelled, ret>>

\* Top of the for loop: batch++, maxMsgs := BatchSize, and the capacity test,
\* which reads handlerCount once.  At capacity the loop goes to the busy wait,
\* otherwise to the computation of maxMsgs.
LoopTop ==
    /\ ~crashed
    /\ pc = "top"
    /\ batch < MaxBatch
    /\ batch' = batch + 1
    /\ maxMsgs' = BatchSize
    /\ pc' = IF AtCapacity(handlerCount) THEN "busy" ELSE "size"
    /\ UNCHANGED <<cfgVars, pollHandler, handlerCount, wg, result, idx, tmp, msg,
                   goVars, queueVars, crashed, cancelled, ret>>

\* <-time.After(BusyTimeout); continue.
BusyWait ==
    /\ ~crashed
    /\ pc = "busy"
    /\ pc' = "top"
    /\ UNCHANGED <<cfgVars, pollHandler, handlerCount, batch, maxMsgs, wg, result,
                   idx, tmp, msg, goVars, queueVars, crashed, cancelled, ret>>

\* maxMsgs = int64(s.MaxHandlers - s.handlerCount): a second read of handlerCount.
ComputeMaxMsgs ==
    /\ ~crashed
    /\ pc = "size"
    /\ maxMsgs' = MaxHandlers - handlerCount
    /\ pc' = "receive"
    /\ UNCHANGED <<cfgVars, pollHandler, handlerCount, batch, wg, result, idx, tmp,
                   msg, goVars, queueVars, crashed, cancelled, ret>>

\* The numbers of messages a ReceiveMessage call asking for n may return.
Granted(n) == 0..Min(IF n > 0 THEN n ELSE 0, MaxMsgs - delivered)

\* continue written for break: the fetch is retried.
OnReceiveError_Retry == "top"

\* Where the loop goes when ReceiveMessage returned an error: break.
OnReceiveError == "wait"

\* ReceiveMessage returned an error: it is logged and the loop is left.
ReceiveError ==
    /\ ~crashed
    /\ pc = "receive"
    /\ recvCalls' = recvCalls + 1
    /\ err' = TRUE
    /\ pc' = OnReceiveError
    /\ UNCHANGED <<cfgVars, pollHandler, handlerCount, batch, maxMsgs, wg, result,
                   idx, tmp, msg, goVars, delivered, deletes, cvts, crashed,
                   cancelled, ret>>

\* ReceiveMessage returned k messages, k <= maxMsgs: the range loop starts.
ReceiveOk(k) ==
    /\ ~crashed
    /\ pc = "receive"
    /\ k \in Granted(maxMsgs)
    /\ recvCalls' = recvCalls + 1
    /\ result' = <<delivered + 1, delivered + k>>
    /\ delivered' = delivered + k
    /\ idx' = 0
    /\ pc' = "range"
    /\ UNCHANGED <<cfgVars, pollHandler, handlerCount, batch, maxMsgs, wg, tmp, msg,
                   goVars, err, deletes, cvts, crashed, cancelled, ret>>

\* The length counted one too many.
NumMessages_OneMore(r) == r[2] - r[1] + 2

\* len(result.Messages)
NumMessages(r) == r[2] - r[1] + 1

\* for _, msg := range result.Messages: the loop variable is assigned the next
\* message.  Without a handler the message is only logged.
RangeNext ==
    /\ ~crashed
    /\ pc = "range"
    /\ idx < NumMessages(result)
    /\ msg' = [msg EXCEPT ![batch] = result[1] + idx]
    /\ idx' = idx + 1
    /\ pc' = IF pollHandler = "nil" THEN "range" ELSE "inc"
    /\ UNCHANGED <<cfgVars, pollHandler, handlerCount, batch, maxMsgs, wg, result,
                   tmp, goVars, queueVars, crashed, cancelled, ret>>

\* s.handlerCount++ is a plain load followed by a plain store: the load.
IncLoad ==
    /\ ~crashed
    /\ pc = "inc"
    /\ tmp' = handlerCount
    /\ pc' = "spawn"
    /\ UNCHANGED <<cfgVars, pollHandler, handlerCount, batch, maxMsgs, wg, result,
                   idx, msg, goVars, queueVars, crashed, cancelled, ret>>

\* The store of s.handlerCount++, wg.Add(1) and the go statement.  The closure
\* captures the loop variable msg, it is not given the message.  The loaded
\* value is dead after the store.
Spawn ==
    /\ ~crashed
    /\ pc = "spawn"
    /\ handlerCount' = tmp + 1
    /\ wg' = wg + 1
    /\ g' = [g EXCEPT ![result[1] + idx - 1] = "spawned"]
    /\ gbatch' = [gbatch EXCEPT ![result[1] + idx - 1] = batch]
    /\ tmp' = 0
    /\ pc' = "range"
    /\ UNCHANGED <<cfgVars, pollHandler, batch, maxMsgs, result, idx, msg, arg,
                   gtmp, queueVars, crashed, cancelled, ret>>

\* The loop waiting for the handlers of the batch before it goes on.
AfterDispatch_Wait ==
    /\ ~crashed
    /\ pc = "range"
    /\ idx = NumMessages(result)
    /\ wg = 0
    /\ pc' = IF RunOnce THEN "wait" ELSE "interval"
    /\ UNCHANGED <<cfgVars, pollHandler, handlerCount, batch, maxMsgs, wg, result,
                   idx, tmp, msg, goVars, queueVars, crashed, cancelled, ret>>

\* The interval wait taken whatever RunOnce is.
AfterDispatch_Interval ==
    /\ ~crashed
    /\ pc = "range"
    /\ idx = NumMessages(result)
    /\ pc' = "interval"
    /\ UNCHANGED <<cfgVars, pollHandler, handlerCount, batch, maxMsgs, wg, result,
                   idx, tmp, msg, goVars, queueVars, crashed, cancelled, ret>>

\* The loop left after the batch whatever RunOnce is.
AfterDispatch_Break ==
    /\ ~crashed
    /\ pc = "range"
    /\ idx = NumMessages(result)
    /\ pc' = "wait"
    /\ UNCHANGED <<cfgVars, pollHandler, handlerCount, batch, maxMsgs, wg, result,
                   idx, tmp, msg, goVars, queueVars, crashed, cancelled, ret>>

\* The range loop is over: break in run-once mode, else the interval wait.
AfterDispatch ==
    /\ ~crashed
    /\ pc = "range"
    /\ idx = NumMessages(result)
    /\ pc' = IF RunOnce THEN "wait" ELSE "interval"
    /\ UNCHANGED <<cfgVars, pollHandler, handlerCount, batch, maxMsgs, wg, result,
                   idx, tmp, msg, goVars, queueVars, crashed, cancelled, ret>>

\* <-time.After(RunInterval): the wait ends and the loop starts over.
IntervalWait ==
    /\ ~crashed
    /\ pc = "interval"
    /\ pc' = "top"
    /\ UNCHANGED <<cfgVars, pollHandler, handlerCount, batch, maxMsgs, wg, result,
                   idx, tmp, msg, goVars, queueVars, crashed, cancelled, ret>>

\* Poll returning without the final wg.Wait().
WaitOver_NoWait == TRUE

\* What wg.Wait() waits for.
WaitOver == wg = 0

\* wg.Wait() after the loop, then Poll returns; Poll has no result.
PollReturn ==
    /\ ~crashed
    /\ pc = "wait"
    /\ WaitOver
    /\ pc' = "returned"
    /\ ret' = "void"
    /\ UNCHANGED <<cfgVars, pollHandler, handlerCount, batch, maxMsgs, wg, result,
                   idx, tmp, msg, goVars, queueVars, crashed, cancelled>>

\* ------------------------------------------ Poll of part_001: the goroutines
\* The message the closure reads when it calls inst.pollHandler(msg).
CapturedMsg(m) == msg[gbatch[m]]

\* The goroutine starts: it evaluates msg and enters the handler.
GoStart(m) ==
    /\ ~crashed
    /\ g[m] = "spawned"
    /\ arg' = [arg EXCEPT ![m] = CapturedMsg(m)]
    /\ g' = [g EXCEPT ![m] = "running"]
    /\ UNCHANGED <<cfgVars, pollHandler, handlerCount, loopVars, wg, msg, gbatch,
                   gtmp, queueVars, crashed, cancelled, ret>>

\* The handler resolves the message it was given (Delete or
\* ChangeVisibilityTimeout, by the handler registered) and returns; the
\* goroutine then calls w.Done().
HandlerReturn(m) ==
    /\ ~crashed
    /\ g[m] = "running"
    /\ deletes' = IF pollHandler = "delete"
                  THEN [deletes EXCEPT ![arg[m]] = @ + 1] ELSE deletes
    /\ cvts' = IF pollHandler = "cvt"
               THEN [cvts EXCEPT ![arg[m]] = @ + 1] ELSE cvts
    /\ wg' = wg - 1
    /\ g' = [g EXCEPT ![m] = "done"]
    /\ UNCHANGED <<cfgVars, pollHandler, handlerCount, loopVars, msg, gbatch, arg,
                   gtmp, delivered, recvCalls, err, crashed, cancelled, ret>>

\* The handler panics: nothing recovers a panic of the goroutine, the process
\* ends.
HandlerPanic(m) ==
    /\ ~crashed
    /\ g[m] = "running"
    /\ g' = [g EXCEPT ![m] = "panicked"]
    /\ crashed' = TRUE
    /\ UNCHANGED <<cfgVars, pollHandler, handlerCount, loopVars, wg, msg, gbatch,
                   arg, gtmp, queueVars, cancelled, ret>>

\* inst.handlerCount-- is a plain load followed by a plain store: the load.
DecLoad(m) ==
    /\ ~crashed
    /\ g[m] = "done"
    /\ gtmp' = [gtmp EXCEPT ![m] = handlerCount]
    /\ g' = [g EXCEPT ![m] = "decload"]
    /\ UNCHANGED <<cfgVars, pollHandler, handlerCount, loopVars, wg, msg, gbatch,
                   arg, queueVars, crashed, cancelled, ret>>

\* The store of inst.handlerCount--; the goroutine ends and its loaded value
\* with it.
DecStore(m) ==
    /\ ~crashed
    /\ g[m] = "decload"
    /\ handlerCount' = gtmp[m] - 1
    /\ gtmp' = [gtmp EXCEPT ![m] = 0]
    /\ g' = [g EXCEPT ![m] = "finished"]
    /\ UNCHANGED <<cfgVars, pollHandler, loopVars, wg, msg, gbatch, arg,
                   queueVars, crashed, cancelled, ret>>

\* ---------------------------------------------------------- the environment
\* Cancellation is signalled while Poll is in the inter-batch wait.  Poll takes
\* no context or channel: no step of Poll reads the signal.
Cancel ==
    /\ ~crashed
    /\ pc = "interval"
    /\ ~cancelled
    /\ cancelled' = TRUE
    /\ UNCHANGED <<cfgVars, pollHandler, handlerCount, loopVars, wg, msg, goVars,
                   queueVars, crashed, ret>>

Next ==
    \/ \E kind \in HandlerKinds : RegisterPollHandler(kind)
    \/ PollStart
    \/ LoopTop
    \/ BusyWait
    \/ ComputeMaxMsgs
    \/ ReceiveError
    \/ \E k \in 0..MaxMsgs : ReceiveOk(k)
    \/ RangeNext
    \/ IncLoad
    \/ Spawn
    \/ AfterDispatch
    \/ IntervalWait
    \/ PollReturn
    \/ \E m \in Msgs : GoStart(m)
    \/ \E m \in Msgs : HandlerReturn(m)
    \/ \E m \in Msgs : HandlerPanic(m)
    \/ \E m \in Msgs : DecLoad(m)
    \/ \E m \in Msgs : DecStore(m)

Spec == Init /\ [][Next]_vars

\* The same program with the cancellation signal as one more input.
NextCancel ==
    \/ Next
    \/ Cancel

SpecCancel == Init /\ [][NextCancel]_vars

\* ---------------------------------------- Poll of streams/sqs/sqs.go (SpecV2)
\* Poll is entered: handlerCount := 0; wg := sync.WaitGroup{}; batch := 0.
V2_PollStart ==
    /\ ~crashed
    /\ pc = "idle"
    /\ pc' = "top"
    /\ handlerCount' = 0
    /\ wg' = 0
    /\ batch' = 0
    /\ UNCHANGED <<cfgVars, pollHandler, maxMsgs, result, idx, tmp, msg, goVars,
                   queueVars, crashed, cancelled, ret>>

\* "Is running at capacity?": MaxHandlers > 0 && handlerCount >= MaxHandlers.
V2_AtCapacity == MaxHandlers > 0 /\ handlerCount >= MaxHandlers

\* Top of the for loop: batch++, maxMsgs := BatchSize, then either the busy
\* wait or maxMsgs = int64(s.MaxHandlers - handlerCount).  handlerCount is a
\* local of Poll: only the loop reads and writes it.
V2_LoopTop ==
    /\ ~crashed
    /\ pc = "top"
    /\ batch < MaxBatch
    /\ batch' = batch + 1
    /\ IF V2_AtCapacity
       THEN /\ maxMsgs' = BatchSize
            /\ pc' = "busy"
       ELSE /\ maxMsgs' = MaxHandlers - handlerCount
            /\ pc' = "receive"
    /\ UNCHANGED <<cfgVars, pollHandler, handlerCount, wg, result, idx, tmp, msg,
                   goVars, queueVars, crashed, cancelled, ret>>

\* <-time.After(BusyTimeout); continue.
V2_BusyWait ==
    /\ ~crashed
    /\ pc = "busy"
    /\ pc' = "top"
    /\ UNCHANGED <<cfgVars, pollHandler, handlerCount, batch, maxMsgs, wg, result,
                   idx, tmp, msg, goVars, queueVars, crashed, cancelled, ret>>

\* ReceiveMessage returned an error: break.
V2_ReceiveError ==
    /\ ~crashed
    /\ pc = "receive"
    /\ recvCalls' = recvCalls + 1
    /\ err' = TRUE
    /\ pc' = "wait"
    /\ UNCHANGED <<cfgVars, pollHandler, handlerCount, batch, maxMsgs, wg, result,
                   idx, tmp, msg, goVars, delivered, deletes, cvts, crashed,
                   cancelled, ret>>

\* ReceiveMessage returned k messages, k <= maxMsgs.
V2_ReceiveOk(k) ==
    /\ ~crashed
    /\ pc = "receive"
    /\ k \in Granted(maxMsgs)
    /\ recvCalls' = recvCalls + 1
    /\ result' = <<delivered + 1, delivered + k>>
    /\ delivered' = delivered + k
    /\ idx' = 0
    /\ pc' = "range"
    /\ UNCHANGED <<cfgVars, pollHandler, handlerCount, batch, maxMsgs, wg, tmp, msg,
                   goVars, err, deletes, cvts, crashed, cancelled, ret>>

\* One turn of the range loop: handlerCount++ and wg.Add(1) for every message,
\* then go s.PollHandler(&wg, msg) if a handler is registered.  The message is
\* an argument of the go statement, evaluated by the loop.
V2_RangeNext ==
    /\ ~crashed
    /\ pc = "range"
    /\ idx < NumMessages(result)
    /\ msg' = [msg EXCEPT ![batch] = result[1] + idx]
    /\ idx' = idx + 1
    /\ handlerCount' = handlerCount + 1
    /\ wg' = wg + 1
    /\ IF pollHandler = "nil"
       THEN UNCHANGED <<g, gbatch, arg>>
       ELSE /\ g' = [g EXCEPT ![result[1] + idx] = "spawned"]
            /\ gbatch' = [gbatch EXCEPT ![result[1] + idx] = batch]
            /\ arg' = [arg EXCEPT ![result[1] + idx] = result[1] + idx]
    /\ UNCHANGED <<cfgVars, pollHandler, pc, batch, maxMsgs, result, tmp, gtmp,
                   queueVars, crashed, cancelled, ret>>

\* The range loop is over: break in run-once mode, else the interval wait.
V2_AfterDispatch ==
    /\ ~crashed
    /\ pc = "range"
    /\ idx = NumMessages(result)
    /\ pc' = IF RunOnce THEN "wait" ELSE "interval"
    /\ UNCHANGED <<cfgVars, pollHandler, handlerCount, batch, maxMsgs, wg, result,
                   idx, tmp, msg, goVars, queueVars, crashed, cancelled, ret>>

\* <-time.After(RunInterval).
V2_IntervalWait ==
    /\ ~crashed
    /\ pc = "interval"
    /\ pc' = "top"
    /\ UNCHANGED <<cfgVars, pollHandler, handlerCount, batch, maxMsgs, wg, result,
                   idx, tmp, msg, goVars, queueVars, crashed, cancelled, ret>>

\* wg.Wait() after the loop, then Poll returns.
V2_PollReturn ==
    /\ ~crashed
    /\ pc = "wait"
    /\ wg = 0
    /\ pc' = "returned"
    /\ ret' = "void"
    /\ UNCHANGED <<cfgVars, pollHandler, handlerCount, batch, maxMsgs, wg, result,
                   idx, tmp, msg, goVars, queueVars, crashed, cancelled>>

\* The handler goroutine starts running.
V2_GoStart(m) ==
    /\ ~crashed
    /\ g[m] = "spawned"
    /\ g' = [g EXCEPT ![m] = "running"]
    /\ UNCHANGED <<cfgVars, pollHandler, handlerCount, loopVars, wg, msg, gbatch,
                   arg, gtmp, queueVars, crashed, cancelled, ret>>

\* The handler resolves its message, calls wg.Done() and returns; the goroutine
\* ends.  Nothing decrements handlerCount.
V2_HandlerReturn(m) ==
    /\ ~crashed
    /\ g[m] = "running"
    /\ deletes' = IF pollHandler = "delete"
                  THEN [deletes EXCEPT ![arg[m]] = @ + 1] ELSE deletes
    /\ cvts' = IF pollHandler = "cvt"
               THEN [cvts EXCEPT ![arg[m]] = @ + 1] ELSE cvts
    /\ wg' = wg - 1
    /\ g' = [g EXCEPT ![m] = "finished"]
    /\ UNCHANGED <<cfgVars, pollHandler, handlerCount, loopVars, msg, gbatch, arg,
                   gtmp, delivered, recvCalls, err, crashed, cancelled, ret>>

\* The handler panics: the process ends.
V2_HandlerPanic(m) ==
    /\ ~crashed
    /\ g[m] = "running"
    /\ g' = [g EXCEPT ![m] = "panicked"]
    /\ crashed' = TRUE
    /\ UNCHANGED <<cfgVars, pollHandler, handlerCount, loopVars, wg, msg, gbatch,
                   arg, gtmp, queueVars, cancelled, ret>>

\* The handler calls ChangeVisibilityTimeout and ChangeMessageVisibility returns
\* an error: the method calls s.logger.Fatal and then has return retVal.  The
\* logger is outside this source, so both outcomes of Fatal are admitted: it
\* ends the process (exits), with the call made and wg.Done() never reached,
\* or it returns, the method returns false and the handler goes on to
\* wg.Done() and returns.
V2_ChangeVisibilityFails(m, exits) ==
    /\ ~crashed
    /\ g[m] = "running"
    /\ pollHandler = "cvt"
    /\ cvts' = [cvts EXCEPT ![arg[m]] = @ + 1]
    /\ IF exits
       THEN /\ g' = [g EXCEPT ![m] = "fatal"]
            /\ crashed' = TRUE
            /\ wg' = wg
       ELSE /\ g' = [g EXCEPT ![m] = "finished"]
            /\ crashed' = crashed
            /\ wg' = wg - 1
    /\ UNCHANGED <<cfgVars, pollHandler, handlerCount, loopVars, msg, gbatch, arg,
                   gtmp, delivered, recvCalls, err, deletes, cancelled, ret>>

NextV2 ==
    \/ \E kind \in HandlerKinds : RegisterPollHandler(kind)
    \/ V2_PollStart
    \/ V2_LoopTop
    \/ V2_BusyWait
    \/ V2_ReceiveError
    \/ \E k \in 0..MaxMsgs : V2_ReceiveOk(k)
    \/ V2_RangeNext
    \/ V2_AfterDispatch
    \/ V2_IntervalWait
    \/ V2_PollReturn
    \/ \E m \in Msgs : V2_GoStart(m)
    \/ \E m \in Msgs : V2_HandlerReturn(m)
    \/ \E m \in Msgs : V2_HandlerPanic(m)
    \/ \E m \in Msgs, exits \in BOOLEAN : V2_ChangeVisibilityFails(m, exits)

SpecV2 == Init /\ [][NextV2]_vars

\* ------------------------------------------- Poll of streams/sqs.go (SpecV0)
\* Poll(handler) is entered: wg := sync.WaitGroup{}.  The handler is the
\* parameter of Poll; it ends with Delete and wg.Done().
V0_PollStart ==
    /\ ~crashed
    /\ pc = "idle"
    /\ pollHandler' = "delete"
    /\ wg' = 0
    /\ pc' = "receive"
    /\ UNCHANGED <<cfgVars, handlerCount, batch, maxMsgs, result, idx, tmp, msg,
                   goVars, queueVars, crashed, cancelled, ret>>

\* ReceiveMessage returned an error: log.Fatal(err) prints it and calls
\* os.Exit(1); the break and the wg.Wait() after the loop are never reached.
V0_ReceiveError ==
    /\ ~crashed
    /\ pc = "receive"
    /\ recvCalls < MaxBatch
    /\ recvCalls' = recvCalls + 1
    /\ err' = TRUE
    /\ pc' = "fatal"
    /\ crashed' = TRUE
    /\ UNCHANGED <<cfgVars, pollHandler, handlerCount, batch, maxMsgs, wg, result,
                   idx, tmp, msg, goVars, delivered, deletes, cvts, cancelled,
                   ret>>

\* ReceiveMessage, asked for s.Limit messages, returned k of them.
V0_ReceiveOk(k) ==
    /\ ~crashed
    /\ pc = "receive"
    /\ recvCalls < MaxBatch
    /\ k \in Granted(BatchSize)
    /\ recvCalls' = recvCalls + 1
    /\ result' = <<delivered + 1, delivered + k>>
    /\ delivered' = delivered + k
    /\ idx' = 0
    /\ pc' = "range"
    /\ UNCHANGED <<cfgVars, pollHandler, handlerCount, batch, maxMsgs, wg, tmp, msg,
                   goVars, err, deletes, cvts, crashed, cancelled, ret>>

\* One turn of the range loop: wg.Add(1); go handler(&wg, msg).
V0_RangeNext ==
    /\ ~crashed
    /\ pc = "range"
    /\ idx < NumMessages(result)
    /\ idx' = idx + 1
    /\ wg' = wg + 1
    /\ g' = [g EXCEPT ![result[1] + idx] = "spawned"]
    /\ arg' = [arg EXCEPT ![result[1] + idx] = result[1] + idx]
    /\ UNCHANGED <<cfgVars, pollHandler, handlerCount, pc, batch, maxMsgs, result,
                   tmp, msg, gbatch, gtmp, queueVars, crashed, cancelled, ret>>

\* The range loop is over: the for loop starts over with the next fetch.
V0_RangeEnd ==
    /\ ~crashed
    /\ pc = "range"
    /\ idx = NumMessages(result)
    /\ pc' = "receive"
    /\ UNCHANGED <<cfgVars, pollHandler, handlerCount, batch, maxMsgs, wg, result,
                   idx, tmp, msg, goVars, queueVars, crashed, cancelled, ret>>

\* The handler goroutines are those of the handler(wg, msg) signature.
NextV0 ==
    \/ V0_PollStart
    \/ V0_ReceiveError
    \/ \E k \in 0..MaxMsgs : V0_ReceiveOk(k)
    \/ V0_RangeNext
    \/ V0_RangeEnd
    \/ \E m \in Msgs : V2_GoStart(m)
    \/ \E m \in Msgs : V2_HandlerReturn(m)
    \/ \E m \in Msgs : V2_HandlerPanic(m)

SpecV0 == Init /\ [][NextV0]_vars

\* ------------------------------------------------ NewSQS of part_001 (SpecNew)
\* The options NewSQS is called with: values at and around every bound.
RegionInputs == {"", "us-east-2"}
URLInputs == {"", "url"}
BatchSizeInputs == {-1, 0, 1, 10, 11}
WaitSecondsInputs == {-1, 0, 20, 21}
VisibilityTimeoutInputs == {-1, 0, 12 * 60 * 60, 12 * 60 * 60 + 1}
RunIntervalInputs == {-1, 0, 20}

\* NewSQS is about to be called with some opts; there is no instance yet.
InitNew ==
    /\ MaxHandlers \in MaxHandlersValues
    /\ RunOnce \in BOOLEAN
    /\ BatchSize \in BatchSizeInputs
    /\ AWSRegion \in RegionInputs
    /\ URL \in URLInputs
    /\ WaitSeconds \in WaitSecondsInputs
    /\ VisibilityTimeout \in VisibilityTimeoutInputs
    /\ RunInterval \in RunIntervalInputs
    /\ nsPc = "start"
    /\ nsErr = "nil"
    /\ nsInst = "nil"
    /\ netCalls = 0
    /\ pollHandler = "nil"
    /\ handlerCount = 0
    /\ pc = "idle"
    /\ batch = 0
    /\ maxMsgs = 0
    /\ wg = 0
    /\ result = <<1, 0>>
    /\ idx = 0
    /\ msg = [b \in Batches |-> 0]
    /\ tmp = 0
    /\ g = [m \in Msgs |-> "none"]
    /\ gbatch = [m \in Msgs |-> 0]
    /\ arg = [m \in Msgs |-> 0]
    /\ gtmp = [m \in Msgs |-> 0]
    /\ delivered = 0
    /\ recvCalls = 0
    /\ err = FALSE
    /\ deletes = [m \in Msgs |-> 0]
    /\ cvts = [m \in Msgs |-> 0]
    /\ crashed = FALSE
    /\ cancelled = FALSE
    /\ ret = "none"
    /\ StubInit(0)

\* The BatchSize test with its upper limit off by one.
BatchSizeBad_Off(b) == b < 0 \/ b > 11

\* opts.BatchSize < 0 || opts.BatchSize > 10
BatchSizeBad(b) == b < 0 \/ b > 10

\* opts.WaitSeconds < 0 || opts.WaitSeconds > 20
WaitSecondsBad(w) == w < 0 \/ w > 20

\* opts.VisibilityTimeout < 0 || opts.VisibilityTimeout > 12*60*60
VisibilityTimeoutBad(v) == v < 0 \/ v > 12 * 60 * 60

\* validateOpts: the first test that fails gives the error, "nil" for none.
validateOpts ==
    IF AWSRegion = "" THEN "AWSRegion is required"
    ELSE IF URL = "" THEN "A valid SQS URL is required"
    ELSE IF BatchSizeBad(BatchSize) THEN "BatchSize should be between 1-10"
    ELSE IF WaitSecondsBad(WaitSeconds) THEN "WaitSecond should be between 1-20"
    ELSE IF VisibilityTimeoutBad(VisibilityTimeout)
         THEN "WaitSecond should be between 1-43200"
    ELSE "nil"

pollVars == <<pollHandler, handlerCount, loopVars, wg, msg, goVars, queueVars,
              crashed, cancelled, ret, stubVars>>
optVars == <<MaxHandlers, RunOnce, BatchSize, AWSRegion, URL, WaitSeconds,
             VisibilityTimeout, RunInterval>>

\* NewSQS starts with validateOpts and returns nil and its error if any.
NS_Validate ==
    /\ nsPc = "start"
    /\ IF validateOpts # "nil"
       THEN /\ nsErr' = validateOpts
            /\ nsPc' = "done"
       ELSE /\ nsErr' = nsErr
            /\ nsPc' = "creds"
    /\ UNCHANGED <<optVars, nsInst, netCalls, pollVars>>

\* The credentials are read from the environment; without them NewSQS returns
\* an error.  Config, session and client are then built locally.
NS_Credentials(ok) ==
    /\ nsPc = "creds"
    /\ IF ok
       THEN /\ nsErr' = nsErr
            /\ nsPc' = "connect"
       ELSE /\ nsErr' = "Invalid AWS credentials"
            /\ nsPc' = "done"
    /\ UNCHANGED <<optVars, nsInst, netCalls, pollVars>>

\* svc.GetQueueAttributes, the one call to the queue service: on an error
\* NewSQS returns it, else it returns the instance.
NS_GetQueueAttributes(ok) ==
    /\ nsPc = "connect"
    /\ netCalls' = netCalls + 1
    /\ nsPc' = "done"
    /\ IF ok
       THEN /\ nsErr' = nsErr
            /\ nsInst' = "instance"
       ELSE /\ nsErr' = "Unable to get queue attributes"
            /\ nsInst' = nsInst
    /\ UNCHANGED <<optVars, pollVars>>

NextNew ==
    \/ NS_Validate
    \/ \E ok \in BOOLEAN : NS_Credentials(ok)
    \/ \E ok \in BOOLEAN : NS_GetQueueAttributes(ok)

SpecNew == InitNew /\ [][NextNew]_vars

\* ------------------------------- the channel-backed SQS of part_000 (SpecStub)
\* A stub instance made by NewSQS(limit, waitSeconds); the consumer of
\* part_001 is not in use.
InitStub ==
    /\ \E limit \in LimitValues : StubInit(limit)
    /\ MaxHandlers = 0
    /\ RunOnce = TRUE
    /\ BatchSize = 1
    /\ AWSRegion = ""
    /\ URL = ""
    /\ WaitSeconds = 0
    /\ VisibilityTimeout = 0
    /\ RunInterval = 0
    /\ nsPc = "start"
    /\ nsErr = "nil"
    /\ nsInst = "nil"
    /\ netCalls = 0
    /\ pollHandler = "nil"
    /\ handlerCount = 0
    /\ pc = "idle"
    /\ batch = 0
    /\ maxMsgs = 0
    /\ wg = 0
    /\ result = <<1, 0>>
    /\ idx = 0
    /\ msg = [b \in Batches |-> 0]
    /\ tmp = 0
    /\ g = [m \in Msgs |-> "none"]
    /\ gbatch = [m \in Msgs |-> 0]
    /\ arg = [m \in Msgs |-> 0]
    /\ gtmp = [m \in Msgs |-> 0]
    /\ delivered = 0
    /\ recvCalls = 0
    /\ err = FALSE
    /\ deletes = [m \in Msgs |-> 0]
    /\ cvts = [m \in Msgs |-> 0]
    /\ crashed = FALSE
    /\ cancelled = FALSE
    /\ ret = "none"

\* Everything but the stub's own state.
consumerVars == <<MaxHandlers, RunOnce, BatchSize, AWSRegion, URL, WaitSeconds,
                  VisibilityTimeout, RunInterval, newVars, pollHandler,
                  handlerCount, loopVars, wg, msg, goVars, queueVars, crashed,
                  cancelled, ret>>

\* A channel made one slot too small.
ChanCap_OneLess == IF Limit > 0 THEN Limit - 1 ELSE 0

\* make(chan SQSJob, s.Limit): the capacity of the jobs channel.
ChanCap == Limit

\* Poll is entered: s.jobs = make(chan SQSJob, s.Limit); i := 1.
Stub_PollStart ==
    /\ ppc = "idle"
    /\ jobs' = 1
    /\ pi' = 1
    /\ ppc' = "loop"
    /\ UNCHANGED <<consumerVars, Limit, chanBuf, chanClosed, rpc, rch, rwg, rg,
                   invoked, readAfterPoll>>

\* s.jobs <- SQSJob{i, ...}; i++.  The send waits for a free slot.
Stub_PollSend ==
    /\ ppc = "loop"
    /\ pi <= Limit
    /\ Len(chanBuf[jobs]) < ChanCap
    /\ chanBuf' = [chanBuf EXCEPT ![jobs] = Append(@, pi)]
    /\ pi' = pi + 1
    /\ UNCHANGED <<consumerVars, Limit, jobs, chanClosed, ppc, rpc, rch, rwg, rg,
                   invoked, readAfterPoll>>

\* The loop is over: close(s.jobs) and Poll returns.
Stub_PollClose ==
    /\ ppc = "loop"
    /\ pi > Limit
    /\ chanClosed' = [chanClosed EXCEPT ![jobs] = TRUE]
    /\ ppc' = "returned"
    /\ UNCHANGED <<consumerVars, Limit, jobs, chanBuf, pi, rpc, rch, rwg, rg,
                   invoked, readAfterPoll>>

\* Read is entered: wg := sync.WaitGroup{}; the range statement evaluates
\* s.jobs once, to the channel the field refers to at that moment.
Stub_ReadStart ==
    /\ rpc = "idle"
    /\ rch' = jobs
    /\ rwg' = 0
    /\ readAfterPoll' = (ppc = "returned")
    /\ rpc' = "range"
    /\ UNCHANGED <<consumerVars, Limit, jobs, chanBuf, chanClosed, ppc, pi, rg,
                   invoked>>

\* The range loop receives the oldest job: wg.Add(1); go run(&wg, job).
Stub_ReadRecv ==
    /\ rpc = "range"
    /\ chanBuf[rch] # <<>>
    /\ chanBuf' = [chanBuf EXCEPT ![rch] = Tail(@)]
    /\ rwg' = rwg + 1
    /\ rg' = [rg EXCEPT ![Head(chanBuf[rch])] = "running"]
    /\ invoked' = [invoked EXCEPT ![Head(chanBuf[rch])] = @ + 1]
    /\ UNCHANGED <<consumerVars, Limit, jobs, chanClosed, ppc, pi, rpc, rch,
                   readAfterPoll>>

\* The channel is closed and empty: the range loop ends, wg.Wait() is next.
Stub_ReadRangeEnd ==
    /\ rpc = "range"
    /\ chanBuf[rch] = <<>>
    /\ chanClosed[rch]
    /\ rpc' = "wait"
    /\ UNCHANGED <<consumerVars, Limit, jobs, chanBuf, chanClosed, ppc, pi, rch,
                   rwg, rg, invoked, readAfterPoll>>

\* wg.Wait() returns and so does Read.
Stub_ReadReturn ==
    /\ rpc = "wait"
    /\ rwg = 0
    /\ rpc' = "returned"
    /\ UNCHANGED <<consumerVars, Limit, jobs, chanBuf, chanClosed, ppc, pi, rch,
                   rwg, rg, invoked, readAfterPoll>>

\* run(&wg, job) calls wg.Done(), as Read's comment asks of it, and returns.
Stub_RunDone(j) ==
    /\ rg[j] = "running"
    /\ rwg' = rwg - 1
    /\ rg' = [rg EXCEPT ![j] = "done"]
    /\ UNCHANGED <<consumerVars, Limit, jobs, chanBuf, chanClosed, ppc, pi, rpc,
                   rch, invoked, readAfterPoll>>

NextStub ==
    \/ Stub_PollStart
    \/ Stub_PollSend
    \/ Stub_PollClose
    \/ Stub_ReadStart
    \/ Stub_ReadRecv
    \/ Stub_ReadRangeEnd
    \/ Stub_ReadReturn
    \/ \E j \in Jobs : Stub_RunDone(j)

SpecStub == InitStub /\ [][NextStub]_vars

\* ------------------------------------------------------------------ claims
\* Handlers that have started and not yet returned.
Running == {m \in Msgs : g[m] = "running"}
\* Messages for which a goroutine was spawned.
Dispatched == {m \in Msgs : g[m] # "none"}
\* Goroutines that have called pollHandler.
Invoked == {m \in Msgs : g[m] \notin {"none", "spawned"}}
\* Goroutines whose handler has returned.
Returned == {m \in Msgs : g[m] \in {"done", "decload", "finished"}}
\* Resolution calls made for a receipt handle.
Resolutions(m) == deletes[m] + cvts[m]

\* C1: with MaxHandlers = N > 0 the number of handler invocations that have
\* started and not yet returned never exceeds N.
C1_InFlightAtMostN ==
    MaxHandlers > 0 => Cardinality(Running) <= MaxHandlers

\* C2: every dispatched message is resolved (Delete or ChangeVisibilityTimeout)
\* exactly once: never twice, and once its handler has returned, once.
C2_ResolvedExactlyOnce ==
    \A m \in Msgs :
        /\ Resolutions(m) <= 1
        /\ m \in Returned => Resolutions(m) = 1

\* C3: the invocation spawned for a message of the batch is passed that
\* message, so no message is passed to two invocations and none to no one.
C3_OwnMessage ==
    \A m \in Invoked : arg[m] = m

\* C4: when the process is through (Poll has returned and every goroutine is at
\* rest, or the process has ended), every handler that reached a terminal
\* outcome, a panic included, has had its decrement executed.
Terminal(m) == g[m] \in {"done", "decload", "finished", "panicked"}
AtRest ==
    \/ crashed
    \/ pc = "returned" /\ \A m \in Msgs : g[m] \in {"none", "finished"}
C4_DecrementPerOutcome ==
    AtRest => \A m \in Msgs : Terminal(m) => g[m] = "finished"

\* C5: an iteration whose capacity test finds handlerCount >= N > 0 goes to the
\* busy wait, and from the busy wait the loop only re-evaluates: it makes no
\* ReceiveMessage call.
C5_NoFetchAtCapacity ==
    [][/\ (MaxHandlers > 0 /\ pc = "top" /\ pc' # "top"
             /\ handlerCount >= MaxHandlers) => pc' = "busy"
       /\ pc = "top" => recvCalls' = recvCalls
       /\ pc = "busy" => (recvCalls' = recvCalls /\ pc' \in {"busy", "top"})]_vars

\* A loop at capacity in the busy wait after a batch was dispatched.
C5_Witness ==
    /\ MaxHandlers > 0
    /\ pc = "busy"
    /\ handlerCount >= MaxHandlers
    /\ recvCalls >= 1
    /\ Running # {}

\* C6 (SpecV2): in interval mode with N > 0, once every dispatched handler has
\* finished, capacity is regained: the next capacity test does not send the
\* loop to the busy wait.
C6_CapacityRegained ==
    [][(/\ ~RunOnce
        /\ MaxHandlers > 0
        /\ pc = "top"
        /\ pc' # "top"
        /\ Dispatched # {}
        /\ \A m \in Msgs : g[m] \in {"none", "finished"}) => pc' # "busy"]_vars

\* C7: in run-once mode Poll has not returned while a dispatched handler is
\* yet to start or still running.
C7_RunOnceDrains ==
    (RunOnce /\ pc = "returned") =>
        \A m \in Dispatched : g[m] \in {"done", "decload", "finished"}

\* Poll returned in run-once mode after a batch of two was handled.
C7_Witness ==
    /\ RunOnce
    /\ pc = "returned"
    /\ ~err
    /\ Cardinality(Returned) >= 2

\* C8: once a ReceiveMessage call has failed, no further call is made and no
\* further message is dispatched.
C8_FetchErrorIsTerminal ==
    [][err => /\ recvCalls' = recvCalls
              /\ \A m \in Msgs : g[m] = "none" => g'[m] = "none"]_vars

\* A fetch failed after an earlier batch was dispatched, and Poll returned.
C8_Witness ==
    /\ err
    /\ pc = "returned"
    /\ recvCalls >= 2
    /\ Dispatched # {}

\* C9: when Poll ends because a fetch failed, what it hands to the caller
\* carries the error.
C9_ErrorReturned ==
    (pc = "returned" /\ err) => ret = "error"

\* C10: once cancellation was signalled during the inter-batch wait, no new
\* ReceiveMessage call is made and no new message is dispatched.
C10_CancelStopsLoop ==
    [][cancelled => /\ recvCalls' = recvCalls
                    /\ \A m \in Msgs : g[m] = "none" => g'[m] = "none"]_vars

\* C11: when the handler of message A of a batch has panicked, the goroutine
\* of a sibling B of the same batch that is yet to start or still running can
\* still take its next step (run its handler to the end and resolve B).
C11_FaultIsolated ==
    \A a, b \in Msgs :
        (/\ a # b
         /\ g[a] = "panicked"
         /\ gbatch[b] = gbatch[a]
         /\ g[b] \in {"spawned", "running"})
            => ENABLED (GoStart(b) \/ HandlerReturn(b))

\* C14: a Poll without a registered handler makes no ReceiveMessage call.
C14_NoHandlerNoFetch ==
    pollHandler = "nil" => recvCalls = 0

\* The reserve function of the admission controller: what may be requested
\* with inFlight handlers in flight.
Reserve(inFlight) ==
    IF MaxHandlers > 0
    THEN (IF MaxHandlers - inFlight > 0 THEN MaxHandlers - inFlight ELSE 0)
    ELSE BatchSize

\* C15: the number of messages a ReceiveMessage call is to request, when it is
\* computed, is the reserve function of the in-flight count.
C15_RequestIsReserve ==
    [][(pc = "size" /\ pc' = "receive") => maxMsgs' = Reserve(handlerCount)]_vars

\* C16: every ReceiveMessage call requests at least 1 and at most BatchSize
\* messages.
C16_RequestWithinBatchSize ==
    pc = "receive" => (1 <= maxMsgs /\ maxMsgs <= BatchSize)

\* Goroutines whose decrement of handlerCount has been executed.
Decremented == {m \in Msgs : g[m] = "finished"}

\* C18: no update of handlerCount is lost: it is the number of increments
\* executed (handlers dispatched) minus the number of decrements executed.
C18_NoLostUpdate ==
    handlerCount = Cardinality(Dispatched) - Cardinality(Decremented)

\* C19: with MaxHandlers = N > 0 the counter handlerCount is within [0, N].
C19_CounterInRange ==
    MaxHandlers > 0 => (0 <= handlerCount /\ handlerCount <= MaxHandlers)

\* A step of the poll loop between a successful fetch and the next one.
LoopStep ==
    \/ RangeNext
    \/ IncLoad
    \/ Spawn
    \/ AfterDispatch
    \/ IntervalWait
    \/ ComputeMaxMsgs

\* C20: in interval mode the poll loop is never held up by the handlers it
\* dispatched: between a fetch and the next one its next step can always be
\* taken, and with handlerCount below MaxHandlers the capacity test sends it on
\* to the next ReceiveMessage call.
C20_DispatchDoesNotBlock ==
    (~RunOnce /\ ~crashed) =>
        /\ pc \in {"range", "inc", "spawn", "interval", "size"} => ENABLED LoopStep
        /\ (/\ pc = "top"
            /\ batch < MaxBatch
            /\ (MaxHandlers > 0 => handlerCount < MaxHandlers))
               => ENABLED (LoopTop /\ pc' = "size")

\* The loop is at its second ReceiveMessage call while every handler of the
\* first batch is yet to start or still running.
C20_Witness ==
    /\ ~RunOnce
    /\ ~crashed
    /\ pc = "receive"
    /\ recvCalls >= 1
    /\ Dispatched # {}
    /\ \A m \in Dispatched : g[m] \in {"spawned", "running"}

\* C12 (SpecNew): NewSQS called with BatchSize = 11 or VisibilityTimeout = -1
\* makes no call to the queue service and returns an error and no instance.
C12_InvalidOptsNoNetwork ==
    (BatchSize = 11 \/ VisibilityTimeout = -1) =>
        /\ netCalls = 0
        /\ nsInst = "nil"
        /\ nsPc = "done" => nsErr # "nil"

\* NewSQS has returned the BatchSize error for BatchSize = 11, and the
\* visibility error for VisibilityTimeout = -1, the other options being valid.
C12_Witness ==
    /\ nsPc = "done"
    /\ netCalls = 0
    /\ \/ BatchSize = 11 /\ nsErr = "BatchSize should be between 1-10"
       \/ VisibilityTimeout = -1 /\ nsErr = "WaitSecond should be between 1-43200"

\* A configuration that violates a stated bound.
ViolatesBound ==
    \/ BatchSize < 1 \/ BatchSize > 10
    \/ WaitSeconds < 0 \/ WaitSeconds > 20
    \/ VisibilityTimeout < 0 \/ VisibilityTimeout > 43200
    \/ ~RunOnce /\ RunInterval <= 0

\* C13 (SpecNew): NewSQS fails for every configuration that violates a bound.
C13_BoundsEnforced ==
    (nsPc = "done" /\ ViolatesBound) => (nsErr # "nil" /\ nsInst = "nil")

\* The positions of Poll inside the range loop over result.Messages.
InRange == {"range", "inc", "spawn"}

\* C21 (Spec): in run-once mode Poll makes one ReceiveMessage call in all, has
\* made it when it returns, and never waits the interval; in interval mode the
\* range loop is left for the interval wait only, no fetch happens during the
\* wait, and the next fetch is reachable from the end of the wait only.
C21_RunOnceOneFetch ==
    [][/\ RunOnce => /\ recvCalls' <= 1
                      /\ pc' # "interval"
                      /\ (pc' = "returned" => recvCalls' = 1)
       /\ ~RunOnce => /\ (pc \in InRange /\ pc' \notin InRange) => pc' = "interval"
                       /\ (pc = "interval" => recvCalls' = recvCalls)
                       /\ ((pc' = "top" /\ pc # "top" /\ recvCalls > 0)
                              => pc \in {"interval", "busy"})]_vars

\* Poll in run-once mode has dispatched a batch and returned after one fetch.
C21_Witness ==
    /\ RunOnce
    /\ pc = "returned"
    /\ recvCalls = 1
    /\ Dispatched # {}

\* The last ReceiveMessage call returned no message.
EmptyResult == recvCalls > 0 /\ result[2] < result[1]

\* C22 (Spec): a fetch that returns an empty result, and the loop's step after
\* it, start no goroutine and leave handlerCount and the WaitGroup counter
\* unchanged; the step after it is the run-once break or the interval wait.
C22_EmptyResultIsNoOp ==
    [][/\ (pc = "receive" /\ pc' = "range" /\ EmptyResult')
            => (handlerCount' = handlerCount /\ wg' = wg /\ g' = g)
       /\ (pc = "range" /\ EmptyResult /\ pc' # pc)
            => /\ pc' = IF RunOnce THEN "wait" ELSE "interval"
               /\ handlerCount' = handlerCount
               /\ wg' = wg
               /\ g' = g]_vars

\* An empty result was received while an earlier handler was running, and the
\* loop has gone on to the interval wait.
C22_Witness ==
    /\ pc = "interval"
    /\ EmptyResult
    /\ recvCalls > 1
    /\ Running # {}

\* C23 (Spec): batch grows by one at every entry of the loop body, busy
\* iterations included, and is changed nowhere else while Poll runs; it is at
\* least the number of ReceiveMessage calls; and whether the iteration fetches
\* is decided by the capacity test alone, whatever batch is.
C23_BatchCountsIterations ==
    [][/\ (pc = "top" /\ pc' # "top")
            => /\ batch' = batch + 1
               /\ pc' = IF AtCapacity(handlerCount) THEN "busy" ELSE "size"
       /\ (pc # "top" /\ pc # "idle") => batch' = batch
       /\ batch' >= recvCalls']_vars

\* A busy iteration has been counted: batch is ahead of the number of fetches.
C23_Witness ==
    /\ pc = "busy"
    /\ recvCalls >= 1
    /\ batch > recvCalls

\* C24 (Spec): when Poll has returned, handlerCount is 0.
C24_ZeroAtReturn == pc = "returned" => handlerCount = 0

\* C25 (SpecV0): once a ReceiveMessage call has failed, Poll has returned or
\* ended the process only if every dispatched handler has returned.
C25_FetchErrorWaitsForHandlers ==
    (err /\ pc \in {"returned", "fatal"}) =>
        \A m \in Dispatched : g[m] \in {"done", "decload", "finished"}

\* C26 (SpecV2): in run-once mode, once the loop is left and every goroutine
\* that was started has called wg.Done(), Poll can return.
C26_RunOnceTerminates ==
    (RunOnce /\ ~crashed /\ pc = "wait"
        /\ \A m \in Msgs : g[m] \in {"none", "finished"})
    => ENABLED V2_PollReturn

\* C27 (Spec): in interval mode Poll has left its loop, for the final
\* wg.Wait() or for good, only if a ReceiveMessage call has failed.
C27_IntervalModeEndsOnErrorOnly ==
    (~RunOnce /\ pc \in {"wait", "returned"}) => err

\* In interval mode Poll has returned after several fetches, the last of which
\* failed, with handlers dispatched before.
C27_Witness ==
    /\ ~RunOnce
    /\ pc = "returned"
    /\ err
    /\ recvCalls >= 2
    /\ Dispatched # {}

\* C28 (SpecStub): Poll never waits on the channel; and when Read is called
\* after Poll has returned, no job is handed to run twice, Read has returned
\* only if run was started once for every job ID 1..Limit and each has called
\* wg.Done(), and Read can return as soon as they all have.
C28_PollThenRead ==
    /\ (ppc = "loop" /\ pi <= Limit) => ENABLED Stub_PollSend
    /\ (rpc # "idle" /\ readAfterPoll) =>
          /\ \A j \in Jobs : invoked[j] <= 1
          /\ \A j \in Jobs : invoked[j] = 1 => j <= Limit
          /\ rpc = "returned" =>
                \A j \in 1..Limit : invoked[j] = 1 /\ rg[j] = "done"
          /\ (rpc = "range" /\ chanBuf[rch] = <<>>) => ENABLED Stub_ReadRangeEnd
          /\ (rpc = "wait" /\ \A j \in 1..Limit : rg[j] = "done")
                => ENABLED Stub_ReadReturn

\* Read, called after Poll, has returned with all of three jobs run and done.
C28_Witness ==
    /\ readAfterPoll
    /\ rpc = "returned"
    /\ Limit = MaxLimit
    /\ \A j \in Jobs : invoked[j] = 1 /\ rg[j] = "done"

\* C29 (SpecStub): whenever Read is called, it ranges over the channel Poll
\* sends on, so that once Poll has returned Read can receive or end its loop.
C29_ReadAnyTime ==
    /\ (rpc # "idle" /\ ppc # "idle") => rch = jobs
    /\ (rpc = "range" /\ ppc = "returned")
          => ENABLED (Stub_ReadRecv \/ Stub_ReadRangeEnd)

====
